---- MODULE Spec2Model ----
(***************************************************************************)
(* A model of the browsing agent: the WebDriver singleton of               *)
(* src/src/webdriver/webdriver.py and the request handling of              *)
(* src/src/oai_agent/oai_agent.py (identity resolution, tool registration, *)
(* the chat between the user proxy and the assistant, the HTTP reply).     *)
(*                                                                         *)
(* Python values are modelled as follows: None and an unset attribute are  *)
(* 0 / "unset"; an object is a positive integer (its identity); a string   *)
(* is a sequence of tokens, so that `in` and `replace` are computed.       *)
(***************************************************************************)
EXTENDS Integers, Sequences, FiniteSets, TLC

\* ------------------------------------------------------------------ bounds
\* WebDriver objects that may ever be registered.
MaxObjs == 2
\* Pages the browser may ever open.
MaxPages == 3
\* Assistant identities the oracle may ever create.
MaxIds == 2
\* Tool calls the oracle issues in one requires_action round.
MaxCalls == 2
\* requires_action rounds in one conversation.
MaxRounds == 1
\* The agents' limit of consecutive automatic replies (the library's default
\* is far larger; the model scales it down).
MaxConsecutiveAutoReply == 2

\* ------------------------------------------------------- program constants
ViewportWidth == 960
ViewportHeight == 1080
InternalServerErrorStatus == 500

None == 0
ObjIds == 1..MaxObjs
PageIds == 1..MaxPages
Viewport == [width |-> ViewportWidth, height |-> ViewportHeight]

VARIABLES
    instance,   \* WebDriver.__instance: None or the registered object
    objs,       \* per object: the attributes self.browser and self.page
    pages,      \* per page: none | open | closed | crashed, and its viewport
    nextObj,    \* the next object identity
    nextPage,   \* the next page identity
    launched,   \* browsers launched so far
    returned,   \* the objects getInstance has returned so far
    last,       \* the last WebDriver call: what it was given and how it ended
    store,      \* the identity store: the remoteId kept for the role, or None
    remote,     \* the assistants that exist at the oracle
    nextId,     \* the next remoteId the oracle hands out
    conv,       \* per conversation: the request's position and its history
    threads     \* per thread inside getInstance: its position and its locals

driverVars == <<instance, objs, pages, nextObj, nextPage, launched, returned, last>>
identityVars == <<store, remote, nextId>>
vars == <<instance, objs, pages, nextObj, nextPage, launched, returned, last,
          store, remote, nextId, conv, threads>>

\* ============================================================== WebDriver

\* What createDriver can do: succeed, or raise at the launch (lines 84-103,
\* nothing assigned), at browser.new_page() (line 106, self.browser assigned)
\* or at set_viewport_size (line 107, self.page assigned too).
LaunchOutcomes == {"ok", "launch_fail", "page_fail", "viewport_fail"}

NoObj == [browser |-> "unset", page |-> None, playwright |-> "unset"]
NoPage == [state |-> "none", viewport |-> "unset"]
NoCall == [op |-> "none", pre |-> None, ret |-> None, exc |-> "none"]

\* createDriver: the attributes of the object under construction. The
\* started engine is kept in a local variable (line 84): self.playwright is
\* never assigned.
createDriverObj(launch) ==
    [browser |-> IF launch = "launch_fail" THEN "unset" ELSE "open",
     page |-> IF launch \in {"ok", "viewport_fail"} THEN nextPage ELSE None,
     playwright |-> "unset"]

\* createDriver: the pages after it.
createDriverPages(launch) ==
    IF launch \in {"ok", "viewport_fail"}
    THEN [pages EXCEPT ![nextPage] =
             [state |-> "open",
              viewport |-> IF launch = "ok" THEN Viewport ELSE "default"]]
    ELSE pages

\* The guard of __init__: a second construction is refused.
NoSingletonGuard(inst) == FALSE
SingletonGuard(inst) == inst # None

\* __init__ on a fresh object: raise the singleton error, or register self and
\* run createDriver (whose failure leaves self registered).
Construct(launch) ==
    IF SingletonGuard(instance)
    THEN UNCHANGED <<instance, objs, pages, nextObj, nextPage, launched>>
    ELSE /\ instance' = nextObj
         /\ nextObj' = nextObj + 1
         /\ objs' = [objs EXCEPT ![nextObj] = createDriverObj(launch)]
         /\ pages' = createDriverPages(launch)
         /\ nextPage' = IF launch \in {"ok", "viewport_fail"}
                        THEN nextPage + 1 ELSE nextPage
         /\ launched' = IF launch = "launch_fail" THEN launched ELSE launched + 1

\* The exception __init__ ends with ("none": it returns).
ConstructExc(launch) ==
    IF SingletonGuard(instance) THEN "singleton"
    ELSE IF launch = "ok" THEN "none" ELSE launch

\* getInstance: construct when nothing is registered, return what is.
GetInstanceStep(launch) ==
    IF instance = None
    THEN Construct(launch)
    ELSE UNCHANGED <<instance, objs, pages, nextObj, nextPage, launched>>

GetInstanceExc(launch) ==
    IF instance = None THEN ConstructExc(launch) ELSE "none"

\* getDriver: self.page (None: the attribute was never assigned).
getDriver(o) == objs[o].page

\* Whether a construction can take place within the model's bounds.
CanConstruct == nextObj <= MaxObjs /\ nextPage <= MaxPages

\* A call of WebDriver.getInstance().
getInstance ==
    /\ instance = None => CanConstruct
    /\ \E launch \in LaunchOutcomes :
          /\ GetInstanceStep(launch)
          /\ returned' = IF GetInstanceExc(launch) = "none"
                         THEN returned \cup {instance'} ELSE returned
          /\ last' = [op |-> "getInstance", pre |-> instance,
                      ret |-> IF GetInstanceExc(launch) = "none"
                              THEN instance' ELSE None,
                      exc |-> GetInstanceExc(launch)]
    /\ UNCHANGED <<identityVars, conv, threads>>

\* A direct construction, WebDriver(...).
init ==
    /\ CanConstruct
    /\ \E launch \in LaunchOutcomes :
          /\ Construct(launch)
          /\ last' = [op |-> "init", pre |-> instance,
                      ret |-> IF ConstructExc(launch) = "none"
                              THEN instance' ELSE None,
                      exc |-> ConstructExc(launch)]
    /\ UNCHANGED <<returned, identityVars, conv, threads>>

CloseOutcomes == {"ok", "close_fail", "new_page_fail", "viewport_fail"}

\* The pages of the browser that are not closed.
OpenPages == {p \in PageIds : pages[p].state \in {"open", "crashed"}}

\* closeCurrentTab on the registered object. An unset self.page is an
\* AttributeError; a page that is_closed() is left as it is; otherwise the
\* page is closed and a new one opened, each of which may raise.
closeCurrentTabKeepOld ==
    /\ instance # None
    /\ nextPage <= MaxPages
    /\ LET o == instance
           p == objs[o].page
       IN \E out \in CloseOutcomes :
          /\ (out = "close_fail") => (p # None /\ pages[p].state = "crashed")
          /\ IF p = None
             THEN /\ last' = [op |-> "closeCurrentTab", pre |-> p, ret |-> None,
                              exc |-> "attribute"]
                  /\ UNCHANGED <<objs, pages, nextPage>>
             ELSE IF pages[p].state = "closed"
             THEN /\ last' = [op |-> "closeCurrentTab", pre |-> p, ret |-> None,
                              exc |-> "none"]
                  /\ UNCHANGED <<objs, pages, nextPage>>
             ELSE IF out = "close_fail"
             THEN /\ last' = [op |-> "closeCurrentTab", pre |-> p, ret |-> None,
                              exc |-> out]
                  /\ UNCHANGED <<objs, pages, nextPage>>
             ELSE IF out = "new_page_fail"
             THEN /\ pages' = [pages EXCEPT ![p].state = "closed"]
                  /\ last' = [op |-> "closeCurrentTab", pre |-> p, ret |-> None,
                              exc |-> out]
                  /\ UNCHANGED <<objs, nextPage>>
             ELSE /\ pages' = [pages EXCEPT
                                 ![nextPage] =
                                    [state |-> "open",
                                     viewport |-> IF out = "ok" THEN Viewport
                                                  ELSE "default"]]
                  /\ objs' = [objs EXCEPT ![o].page = nextPage]
                  /\ nextPage' = nextPage + 1
                  /\ last' = [op |-> "closeCurrentTab", pre |-> p, ret |-> None,
                              exc |-> IF out = "ok" THEN "none" ELSE out]
    /\ UNCHANGED <<instance, nextObj, launched, returned, identityVars, conv, threads>>
closeCurrentTab ==
    /\ instance # None
    /\ nextPage <= MaxPages
    /\ LET o == instance
           p == objs[o].page
       IN \E out \in CloseOutcomes :
          /\ (out = "close_fail") => (p # None /\ pages[p].state = "crashed")
          /\ IF p = None
             THEN /\ last' = [op |-> "closeCurrentTab", pre |-> p, ret |-> None,
                              exc |-> "attribute"]
                  /\ UNCHANGED <<objs, pages, nextPage>>
             ELSE IF pages[p].state = "closed"
             THEN /\ last' = [op |-> "closeCurrentTab", pre |-> p, ret |-> None,
                              exc |-> "none"]
                  /\ UNCHANGED <<objs, pages, nextPage>>
             ELSE IF out = "close_fail"
             THEN /\ last' = [op |-> "closeCurrentTab", pre |-> p, ret |-> None,
                              exc |-> out]
                  /\ UNCHANGED <<objs, pages, nextPage>>
             ELSE IF out = "new_page_fail"
             THEN /\ pages' = [pages EXCEPT ![p].state = "closed"]
                  /\ last' = [op |-> "closeCurrentTab", pre |-> p, ret |-> None,
                              exc |-> out]
                  /\ UNCHANGED <<objs, nextPage>>
             ELSE /\ pages' = [pages EXCEPT
                                 ![p].state = "closed",
                                 ![nextPage] =
                                    [state |-> "open",
                                     viewport |-> IF out = "ok" THEN Viewport
                                                  ELSE "default"]]
                  /\ objs' = [objs EXCEPT ![o].page = nextPage]
                  /\ nextPage' = nextPage + 1
                  /\ last' = [op |-> "closeCurrentTab", pre |-> p, ret |-> None,
                              exc |-> IF out = "ok" THEN "none" ELSE out]
    /\ UNCHANGED <<instance, nextObj, launched, returned, identityVars, conv, threads>>

\* closeDriver on the registered object: self.browser.close(), then
\* self.playwright.stop(). An attribute that was never assigned is an
\* AttributeError, which the except clause logs and raises again.
closeDriver ==
    /\ instance # None
    /\ LET o == instance
       IN IF objs[o].browser = "unset"
          THEN /\ last' = [op |-> "closeDriver", pre |-> o, ret |-> None,
                           exc |-> "attribute"]
               /\ UNCHANGED <<objs, pages>>
          ELSE /\ objs' = [objs EXCEPT
                              ![o].browser = "closed",
                              ![o].playwright =
                                 IF @ = "unset" THEN @ ELSE "stopped"]
               /\ pages' = [p \in PageIds |->
                               IF p \in OpenPages
                               THEN [pages[p] EXCEPT !.state = "closed"]
                               ELSE pages[p]]
               /\ last' = [op |-> "closeDriver", pre |-> o, ret |-> None,
                           exc |-> IF objs[o].playwright = "unset"
                                   THEN "attribute" ELSE "none"]
    /\ UNCHANGED <<instance, nextObj, nextPage, launched, returned,
                   identityVars, conv, threads>>

\* The environment: the current page is closed out-of-band, or crashes.
PageLost ==
    /\ instance # None
    /\ objs[instance].page # None
    /\ pages[objs[instance].page].state = "open"
    /\ \E s \in {"closed", "crashed"} :
          pages' = [pages EXCEPT ![objs[instance].page].state = s]
    /\ last' = [op |-> "env", pre |-> None, ret |-> None, exc |-> "none"]
    /\ UNCHANGED <<instance, objs, nextObj, nextPage, launched, returned,
                   identityVars, conv, threads>>

\* ------------------------------------------- getInstance, line by line
\* Two threads inside WebDriver.getInstance. A thread can be suspended
\* between any two lines, so each line that reads or writes
\* WebDriver.__instance is a step of its own.
Threads == {1, 2}

NoThread == [pc |-> "off", self |-> None, ret |-> None, exc |-> "none"]

\* Line 45: `if WebDriver.__instance is None`; when it is, WebDriver(...)
\* allocates the new object and enters __init__.
getInstanceTest(t) ==
    /\ threads[t].pc = "idle"
    /\ IF instance = None
       THEN /\ nextObj <= MaxObjs
            /\ threads' = [threads EXCEPT ![t].pc = "init", ![t].self = nextObj]
            /\ nextObj' = nextObj + 1
       ELSE /\ threads' = [threads EXCEPT ![t].pc = "return"]
            /\ UNCHANGED nextObj
    /\ UNCHANGED <<instance, objs, pages, nextPage, launched, returned, last,
                   identityVars, conv>>

\* Lines 60-61: the guard of __init__.
initTest(t) ==
    /\ threads[t].pc = "init"
    /\ threads' = [threads EXCEPT
                     ![t].pc = IF SingletonGuard(instance) THEN "done"
                               ELSE "register",
                     ![t].exc = IF SingletonGuard(instance) THEN "singleton"
                                ELSE "none"]
    /\ UNCHANGED <<driverVars, identityVars, conv>>

\* Line 63: WebDriver.__instance = self.
initRegister(t) ==
    /\ threads[t].pc = "register"
    /\ instance' = threads[t].self
    /\ threads' = [threads EXCEPT ![t].pc = "createDriver"]
    /\ UNCHANGED <<objs, pages, nextObj, nextPage, launched, returned, last,
                   identityVars, conv>>

\* Line 64: self.createDriver(), whose exception leaves __init__ and
\* getInstance.
initCreateDriver(t) ==
    /\ threads[t].pc = "createDriver"
    /\ nextPage <= MaxPages
    /\ \E launch \in LaunchOutcomes :
          /\ objs' = [objs EXCEPT ![threads[t].self] = createDriverObj(launch)]
          /\ pages' = createDriverPages(launch)
          /\ nextPage' = IF launch \in {"ok", "viewport_fail"}
                         THEN nextPage + 1 ELSE nextPage
          /\ launched' = IF launch = "launch_fail" THEN launched
                         ELSE launched + 1
          /\ threads' = [threads EXCEPT
                           ![t].pc = IF launch = "ok" THEN "assign" ELSE "done",
                           ![t].exc = IF launch = "ok" THEN "none" ELSE launch]
    /\ UNCHANGED <<instance, nextObj, returned, last, identityVars, conv>>

\* Line 46: WebDriver.__instance = <the object constructed>.
getInstanceAssign(t) ==
    /\ threads[t].pc = "assign"
    /\ instance' = threads[t].self
    /\ threads' = [threads EXCEPT ![t].pc = "return"]
    /\ UNCHANGED <<objs, pages, nextObj, nextPage, launched, returned, last,
                   identityVars, conv>>

\* Line 47: return WebDriver.__instance.
getInstanceReturn(t) ==
    /\ threads[t].pc = "return"
    /\ threads' = [threads EXCEPT ![t].pc = "done", ![t].ret = instance]
    /\ returned' = returned \cup {instance}
    /\ UNCHANGED <<instance, objs, pages, nextObj, nextPage, launched, last,
                   identityVars, conv>>

\* =========================================================== conversations
Convs == {1, 2}

\* ----------------------------------------------------------------- strings
Sentinel == "TERMINATE"

\* `tok in content`, on a string held as its tokens.
Contains(content, tok) == \E i \in 1..Len(content) : content[i] = tok

NotSentinel(tok) == tok # Sentinel

\* content.replace("TERMINATE", "")
RemoveSentinel(content) == SelectSeq(content, NotSentinel)

\* The replies the oracle may complete a run with.
Contents == { <<"Working on it.">>,
              <<"It's 15C. ", "TERMINATE", ".">> }

\* The task a request carries.
Prompt == <<"find the weather in Paris">>

\* The user proxy's default automatic reply, the empty string.
EmptyReply == << >>

\* ------------------------------------------------------------------- tools
\* function_map of register_functions.
FunctionMap == {"analyze_content", "click_element", "go_back", "input_text",
                "jump_to_search_engine", "read_url", "scroll", "wait",
                "save_to_file"}

\* The tool names the oracle asks for in the model.
OracleTools == {"jump_to_search_engine", "read_url"}

CallSeqs == UNION { [1..n -> OracleTools] : n \in 1..MaxCalls }

\* What a page operation can meet on a live page.
PageAttempts == {"ok", "element not found"}

\* How a tool hands a failure on: as its result, or as an exception.
Deliveries == {"result", "raise"}

\* The state in which a tool finds the current page after acquiring the
\* browser session with getInstance() and getDriver().
AcquiredPage(launch) ==
    IF instance # None
    THEN IF getDriver(instance) = None THEN "unset"
         ELSE pages[getDriver(instance)].state
    ELSE IF launch = "ok" THEN "open" ELSE "not acquired"

\* A tool run against the current page: what it returns or raises. The page
\* being gone is the distinguished "page unavailable" failure.
Tool(name, launch, attempt, delivery) ==
    LET page == AcquiredPage(launch)
        error == IF page = "not acquired" THEN "browser not launched"
                 ELSE IF page # "open" THEN "page unavailable"
                 ELSE IF attempt # "ok" THEN attempt
                 ELSE "none"
    IN IF error = "none"
       THEN [kind |-> "result", ok |-> TRUE, value |-> "done"]
       ELSE [kind |-> delivery, ok |-> FALSE, value |-> error]

\* execute_function of the agent the tools are registered with: an unknown
\* name and an exception of the tool both become the content of the tool
\* response; nothing is raised.
execute_function_uncaught(fmap, name, out) ==
    IF name \notin fmap
    THEN [raised |-> "none", name |-> name, ok |-> FALSE, runs |-> 0,
          content |-> <<"Error: Function not found">>]
    ELSE IF out.kind = "raise"
    THEN [raised |-> out.value, name |-> name, ok |-> FALSE, runs |-> 1,
          content |-> << >>]
    ELSE [raised |-> "none", name |-> name, ok |-> out.ok, runs |-> 1,
          content |-> <<out.value>>]

execute_function(fmap, name, out) ==
    IF name \notin fmap
    THEN [raised |-> "none", name |-> name, ok |-> FALSE, runs |-> 0,
          content |-> <<"Error: Function not found">>]
    ELSE IF out.kind = "raise"
    THEN [raised |-> "none", name |-> name, ok |-> FALSE, runs |-> 1,
          content |-> <<"Error: ", out.value>>]
    ELSE [raised |-> "none", name |-> name, ok |-> out.ok, runs |-> 1,
          content |-> <<out.value>>]

\* ----------------------------------------------------------- get_response
NoConv == [pc |-> "off"]

\* A request that has arrived and not begun.
NewConv ==
    [pc |-> "idle", mode |-> "sync", depth |-> 0, creates |-> 0,
     agent |-> None, fmap |-> {}, autoReplies |-> 0, assistantReplies |-> 0,
     turns |-> 0, rounds |-> 0, calls |-> << >>, outputs |-> << >>,
     requested |-> 0, dispatched |-> 0, submitted |-> 0,
     unavailable |-> FALSE, history |-> << >>,
     result |-> None, raised |-> "none", http |-> << >>,
     channel |-> "none", closedAt |-> "never", reads |-> 0, writes |-> 0]

\* raise HTTPException(status_code=500, detail="Internal Server Error")
LeakyHTTPException(e) ==
    [status |-> InternalServerErrorStatus, detail |-> e]
HTTPException(e) ==
    [status |-> InternalServerErrorStatus, detail |-> "Internal Server Error"]

\* The except clause of get_response: whatever was raised becomes the 500.
\* In on_connect the except clause prints the exception and returns.
Except(cr, e) ==
    IF cr.mode = "stream"
    THEN [cr EXCEPT !.pc = "done", !.raised = e]
    ELSE [cr EXCEPT !.pc = "done", !.raised = e,
                    !.http = Append(@, HTTPException(e))]

\* return {"response": response}; in on_connect initiate_chat has returned
\* and the response is still to be written to the channel.
Return(cr, response) ==
    IF cr.mode = "stream"
    THEN [cr EXCEPT !.pc = "output", !.result = response]
    ELSE [cr EXCEPT !.pc = "done", !.result = response,
                    !.http = Append(@, [status |-> 200,
                                        body |-> [response |-> response]])]

\* A request arrives at POST /get-web-agent-response.
Request(c) ==
    /\ conv[c].pc \in {"idle", "done"}
    /\ conv' = [conv EXCEPT ![c] = [NewConv EXCEPT !.pc = "configure"]]
    /\ UNCHANGED <<driverVars, identityVars, threads>>

\* ------------------------------------------------ the websocket endpoint
\* websocket_endpoint: the connection is accepted and on_connect begins.
websocket_endpoint(c) ==
    /\ conv[c].pc \in {"idle", "done"}
    /\ conv' = [conv EXCEPT ![c] = [NewConv EXCEPT !.pc = "input",
                                                   !.mode = "stream",
                                                   !.channel = "open"]]
    /\ UNCHANGED <<driverVars, identityVars, threads>>

\* on_connect, line 139: the initial message is read from the channel; a
\* closed channel raises, which the except clause of line 154 prints.
on_connect(c) ==
    /\ conv[c].pc = "input"
    /\ IF conv[c].channel = "closed"
       THEN conv' = [conv EXCEPT ![c] = Except(@, "connection closed")]
       ELSE conv' = [conv EXCEPT ![c].pc = "configure", ![c].reads = @ + 1]
    /\ UNCHANGED <<driverVars, identityVars, threads>>

\* What the write of line 153 can do on an open channel: send the response,
\* or raise (the stream object cannot write it).
OutputOutcomes == {"written", "raises"}

\* on_connect, line 153: after initiate_chat has returned, the response is
\* written to the channel; an exception is printed (line 155).
outputAndShutdown(c) ==
    /\ conv[c].pc = "output"
    /\ instance # None
    /\ conv' = [conv EXCEPT ![c].pc = "done", ![c].writes = @ + 1]
    /\ objs' = [objs EXCEPT ![instance].browser = "closed"]
    /\ UNCHANGED <<instance, pages, nextObj, nextPage, launched, returned,
                   last, identityVars, threads>>
output(c) ==
    /\ conv[c].pc = "output"
    /\ \E out \in OutputOutcomes :
          IF conv[c].channel = "closed"
          THEN conv' = [conv EXCEPT ![c].pc = "done",
                                    ![c].raised = "connection closed"]
          ELSE IF out = "raises"
          THEN conv' = [conv EXCEPT ![c].pc = "done",
                                    ![c].raised = "output error"]
          ELSE conv' = [conv EXCEPT ![c].pc = "done", ![c].writes = @ + 1]
    /\ UNCHANGED <<driverVars, identityVars, threads>>

\* The environment: the client closes the channel of a session in progress.
\* (closedAt keeps whether the oracle had taken a turn by then.)
ChannelClosed(c) ==
    /\ conv[c].pc \notin {"off", "idle", "done"}
    /\ conv[c].channel = "open"
    /\ conv' = [conv EXCEPT
                  ![c].channel = "closed",
                  ![c].closedAt = IF conv[c].turns >= 1 THEN "conversing"
                                  ELSE "before"]
    /\ UNCHANGED <<driverVars, identityVars, threads>>

\* load_assistant_id: the remoteId the store keeps for the role.
load_assistant_id == store

\* create_agent: the oracle creates an assistant and the store keeps its id.
create_agent ==
    /\ store' = nextId
    /\ remote' = remote \cup {nextId}
    /\ nextId' = nextId + 1

\* One call of configure_agent, up to its return or its recursive call: the
\* assistant is retrieved; NotFoundError creates one and calls
\* configure_agent again; any other exception is re-raised.
configure_agent_recreate(c) ==
    /\ conv[c].pc = "configure"
    /\ nextId <= MaxIds
    /\ create_agent
    /\ conv' = [conv EXCEPT ![c].pc = "register", ![c].creates = @ + 1,
                            ![c].depth = @ + 1, ![c].agent = nextId]
    /\ UNCHANGED <<driverVars, threads>>
configure_agent(c) ==
    /\ conv[c].pc = "configure"
    /\ \E oracle \in {"answers", "fails"}, creation \in {"ok", "fails"} :
          IF oracle = "fails"
          THEN /\ conv' = [conv EXCEPT ![c] = Except(@, "oracle error")]
               /\ UNCHANGED identityVars
          ELSE IF load_assistant_id # None /\ load_assistant_id \in remote
          THEN /\ conv' = [conv EXCEPT ![c].pc = "register",
                                       ![c].depth = @ + 1,
                                       ![c].agent = load_assistant_id]
               /\ UNCHANGED identityVars
          ELSE IF creation = "fails"
          THEN /\ conv' = [conv EXCEPT ![c] = Except(@, "creation error")]
               /\ UNCHANGED identityVars
          ELSE /\ nextId <= MaxIds
               /\ create_agent
               /\ conv' = [conv EXCEPT ![c].creates = @ + 1,
                                       ![c].depth = @ + 1]
    /\ UNCHANGED <<driverVars, threads>>

\* configure_agent in two steps, for requests served by different threads:
\* the try block (lines 46-58), which retrieves the assistant, and the
\* NotFoundError clause (lines 59-62), which creates one and calls
\* configure_agent again. Another thread can run between the two.
configure_agent_try(c) ==
    /\ conv[c].pc = "configure"
    /\ \E oracle \in {"answers", "fails"} :
          IF oracle = "fails"
          THEN conv' = [conv EXCEPT ![c] = Except(@, "oracle error")]
          ELSE IF load_assistant_id # None /\ load_assistant_id \in remote
          THEN conv' = [conv EXCEPT ![c].pc = "register",
                                    ![c].depth = @ + 1,
                                    ![c].agent = load_assistant_id]
          ELSE conv' = [conv EXCEPT ![c].pc = "not found"]
    /\ UNCHANGED <<driverVars, identityVars, threads>>

configure_agent_except(c) ==
    /\ conv[c].pc = "not found"
    /\ \E creation \in {"ok", "fails"} :
          IF creation = "fails"
          THEN /\ conv' = [conv EXCEPT ![c] = Except(@, "creation error")]
               /\ UNCHANGED identityVars
          ELSE /\ nextId <= MaxIds
               /\ create_agent
               /\ conv' = [conv EXCEPT ![c].pc = "configure",
                                       ![c].creates = @ + 1,
                                       ![c].depth = @ + 1]
    /\ UNCHANGED <<driverVars, threads>>

\* register_functions: the function map is registered with the assistant.
register_functions(c) ==
    /\ conv[c].pc = "register"
    /\ conv' = [conv EXCEPT ![c].pc = "proxy", ![c].fmap = FunctionMap]
    /\ UNCHANGED <<driverVars, identityVars, threads>>

\* is_termination_msg of the user proxy.
never_termination_msg(msg) == FALSE
is_termination_msg(msg) == Contains(msg.content, Sentinel)

\* create_user_proxy, and initiate_chat's first message.
create_user_proxy(c) ==
    /\ conv[c].pc = "proxy"
    /\ conv' = [conv EXCEPT ![c].pc = "send", ![c].autoReplies = 0]
    /\ UNCHANGED <<driverVars, identityVars, threads>>

\* The summary of the chat: the last message without the sentinel.
SummaryWithSentinel(history) ==
    IF history = << >> THEN << >>
    ELSE history[Len(history)].content
Summary(history) ==
    IF history = << >> THEN << >>
    ELSE RemoveSentinel(history[Len(history)].content)

\* What initiate_chat returns.
StrResult(history) ==
    [type |-> "str", value |-> history[Len(history)].content]
ChatResult(history) ==
    [type |-> "ChatResult", chat_history |-> history,
     summary |-> Summary(history)]

\* The user proxy sends its message (the task, or an automatic reply) and the
\* assistant receives it: past its limit of automatic replies it does not
\* answer and the chat is over, otherwise it starts a run at the oracle.
Send(c) ==
    /\ conv[c].pc = "send"
    /\ LET msg == [role |-> "user",
                   content |-> IF conv[c].history = << >> THEN Prompt
                               ELSE EmptyReply]
           h == Append(conv[c].history, msg)
       IN IF conv[c].assistantReplies >= MaxConsecutiveAutoReply
          THEN conv' = [conv EXCEPT ![c] =
                           Return([@ EXCEPT !.history = h], ChatResult(h))]
          ELSE conv' = [conv EXCEPT ![c].pc = "run",
                                    ![c].history = h,
                                    ![c].assistantReplies = @ + 1,
                                    ![c].turns = @ + 1]
    /\ UNCHANGED <<driverVars, identityVars, threads>>

\* The oracle answers the run: it requires tool calls, completes with a
\* message, or fails.
Run(c) ==
    /\ conv[c].pc = "run"
    /\ \/ \E calls \in CallSeqs :
             /\ conv[c].rounds < MaxRounds
             /\ conv' = [conv EXCEPT ![c].pc = "dispatch",
                                     ![c].rounds = @ + 1,
                                     ![c].calls = calls,
                                     ![c].outputs = << >>,
                                     ![c].requested = @ + Len(calls)]
       \/ \E content \in Contents :
             conv' = [conv EXCEPT ![c].pc = "receive",
                                  ![c].history =
                                     Append(@, [role |-> "assistant",
                                                content |-> content])]
       \/ conv' = [conv EXCEPT ![c] = Except(@, "oracle error")]
    /\ UNCHANGED <<driverVars, identityVars, threads>>

\* The next tool call of the round is executed, once, against the browser
\* session: the tool acquires the session (which constructs it on first
\* use) and works on the current page.
DispatchTwice(c) ==
    /\ conv[c].pc = "dispatch"
    /\ Len(conv[c].outputs) < Len(conv[c].calls)
    /\ instance = None => CanConstruct
    /\ \E launch \in LaunchOutcomes, attempt \in PageAttempts,
          delivery \in Deliveries :
          LET name == conv[c].calls[Len(conv[c].outputs) + 1]
              r == execute_function(conv[c].fmap, name,
                                    Tool(name, launch, attempt, delivery))
              n == IF r.ok THEN 1 ELSE 2
          IN /\ conv' = [conv EXCEPT
                           ![c].outputs = Append(@, [r EXCEPT !.runs = n]),
                           ![c].dispatched = @ + n]
             /\ GetInstanceStep(launch)
             /\ returned' = IF GetInstanceExc(launch) = "none"
                            THEN returned \cup {instance'} ELSE returned
             /\ last' = [op |-> "getInstance", pre |-> instance,
                         ret |-> IF GetInstanceExc(launch) = "none"
                                 THEN instance' ELSE None,
                         exc |-> GetInstanceExc(launch)]
    /\ UNCHANGED <<identityVars, threads>>
Dispatch(c) ==
    /\ conv[c].pc = "dispatch"
    /\ Len(conv[c].outputs) < Len(conv[c].calls)
    /\ instance = None => CanConstruct
    /\ \E launch \in LaunchOutcomes, attempt \in PageAttempts,
          delivery \in Deliveries :
          LET name == conv[c].calls[Len(conv[c].outputs) + 1]
              r == execute_function(conv[c].fmap, name,
                                    Tool(name, launch, attempt, delivery))
          IN /\ IF r.raised # "none"
                THEN conv' = [conv EXCEPT ![c] =
                                 Except([@ EXCEPT !.dispatched = @ + r.runs],
                                        r.raised)]
                ELSE conv' = [conv EXCEPT ![c].outputs = Append(@, r),
                                          ![c].dispatched = @ + r.runs]
             /\ IF name \in conv[c].fmap
                THEN /\ GetInstanceStep(launch)
                     /\ returned' = IF GetInstanceExc(launch) = "none"
                                    THEN returned \cup {instance'}
                                    ELSE returned
                     /\ last' = [op |-> "getInstance", pre |-> instance,
                                 ret |-> IF GetInstanceExc(launch) = "none"
                                         THEN instance' ELSE None,
                                 exc |-> GetInstanceExc(launch)]
                ELSE UNCHANGED driverVars
    /\ UNCHANGED <<identityVars, threads>>

\* A tool call in two steps, for requests served by different threads: the
\* call begins, and later it ends with its outcome. Another thread can run
\* while the tool is working on the browser session.
DispatchBegin(c) ==
    /\ conv[c].pc = "dispatch"
    /\ Len(conv[c].outputs) < Len(conv[c].calls)
    /\ conv' = [conv EXCEPT ![c].pc = "tool"]
    /\ UNCHANGED <<driverVars, identityVars, threads>>

DispatchEnd(c) ==
    /\ conv[c].pc = "tool"
    /\ instance = None => CanConstruct
    /\ \E launch \in LaunchOutcomes, attempt \in PageAttempts,
          delivery \in Deliveries :
          LET name == conv[c].calls[Len(conv[c].outputs) + 1]
              r == execute_function(conv[c].fmap, name,
                                    Tool(name, launch, attempt, delivery))
          IN /\ conv' = [conv EXCEPT ![c].pc = "dispatch",
                                     ![c].outputs = Append(@, r),
                                     ![c].dispatched = @ + r.runs]
             /\ GetInstanceStep(launch)
             /\ returned' = IF GetInstanceExc(launch) = "none"
                            THEN returned \cup {instance'} ELSE returned
             /\ last' = [op |-> "getInstance", pre |-> instance,
                         ret |-> IF GetInstanceExc(launch) = "none"
                                 THEN instance' ELSE None,
                         exc |-> GetInstanceExc(launch)]
    /\ UNCHANGED <<identityVars, threads>>

\* Every call of the round has its output: the outputs are submitted and
\* the oracle takes its next turn. (unavailable keeps whether an output
\* submitted so far was a "page unavailable" failure.)
SubmitEarly(c) ==
    /\ conv[c].pc = "dispatch"
    /\ Len(conv[c].outputs) >= 1
    /\ conv' = [conv EXCEPT
                  ![c].pc = "run",
                  ![c].turns = @ + 1,
                  ![c].submitted = @ + Len(conv[c].outputs),
                  ![c].outputs = << >>]
    /\ UNCHANGED <<driverVars, identityVars, threads>>
Submit(c) ==
    /\ conv[c].pc = "dispatch"
    /\ Len(conv[c].outputs) = Len(conv[c].calls)
    /\ conv' = [conv EXCEPT
                  ![c].pc = "run",
                  ![c].turns = @ + 1,
                  ![c].submitted = @ + Len(conv[c].outputs),
                  ![c].unavailable =
                     @ \/ \E i \in 1..Len(conv[c].outputs) :
                             Contains(conv[c].outputs[i].content,
                                      "page unavailable"),
                  ![c].outputs = << >>]
    /\ UNCHANGED <<driverVars, identityVars, threads>>

\* The user proxy receives the assistant's message: past its own limit, or on
\* a termination message, the chat is over and initiate_chat returns;
\* otherwise it replies automatically.
Receive(c) ==
    /\ conv[c].pc = "receive"
    /\ LET h == conv[c].history
       IN IF \/ conv[c].autoReplies >= MaxConsecutiveAutoReply
             \/ is_termination_msg(h[Len(h)])
          THEN conv' = [conv EXCEPT ![c] = Return(@, ChatResult(h))]
          ELSE conv' = [conv EXCEPT ![c].pc = "send",
                                    ![c].autoReplies = @ + 1]
    /\ UNCHANGED <<driverVars, identityVars, threads>>

\* The environment: an assistant is deleted at the oracle.
AssistantDeleted ==
    /\ \E id \in remote : remote' = remote \ {id}
    /\ UNCHANGED <<driverVars, store, nextId, conv, threads>>


DriverInit ==
    /\ instance = None
    /\ objs = [o \in ObjIds |-> NoObj]
    /\ pages = [p \in PageIds |-> NoPage]
    /\ nextObj = 1
    /\ nextPage = 1
    /\ launched = 0
    /\ returned = {}
    /\ last = NoCall

\* The WebDriver alone, used in any order by one thread.
Init ==
    /\ DriverInit
    /\ store = None
    /\ remote = {}
    /\ nextId = 1
    /\ conv = [c \in Convs |-> NoConv]
    /\ threads = [t \in Threads |-> NoThread]

Next ==
    \/ PageLost
    \/ getInstance
    \/ init
    \/ closeCurrentTab
    \/ closeDriver

Spec == Init /\ [][Next]_vars

\* Two threads call getInstance at the same time, before any instance exists.
ThreadInit ==
    /\ DriverInit
    /\ store = None
    /\ remote = {}
    /\ nextId = 1
    /\ conv = [c \in Convs |-> NoConv]
    /\ threads = [t \in Threads |-> [NoThread EXCEPT !.pc = "idle"]]

ThreadNext ==
    \/ \E t \in Threads : getInstanceTest(t)
    \/ \E t \in Threads : initTest(t)
    \/ \E t \in Threads : initRegister(t)
    \/ \E t \in Threads : initCreateDriver(t)
    \/ \E t \in Threads : getInstanceAssign(t)
    \/ \E t \in Threads : getInstanceReturn(t)

ThreadSpec == ThreadInit /\ [][ThreadNext]_vars

\* One synchronous request at a time, served by the process again and again;
\* the role's identity exists at the start, or does not.
AgentInit ==
    /\ DriverInit
    /\ \/ store = None /\ remote = {} /\ nextId = 1
       \/ store = 1 /\ remote = {1} /\ nextId = 2
    /\ conv = [c \in Convs |-> IF c = 1 THEN NewConv ELSE NoConv]
    /\ threads = [t \in Threads |-> NoThread]

AgentNext ==
    \/ \E c \in Convs : Request(c)
    \/ \E c \in Convs : configure_agent(c)
    \/ \E c \in Convs : register_functions(c)
    \/ \E c \in Convs : create_user_proxy(c)
    \/ \E c \in Convs : Send(c)
    \/ \E c \in Convs : Run(c)
    \/ \E c \in Convs : Dispatch(c)
    \/ \E c \in Convs : Submit(c)
    \/ \E c \in Convs : Receive(c)
    \/ PageLost
    \/ AssistantDeleted

AgentSpec == AgentInit /\ [][AgentNext]_vars

\* Two synchronous requests in progress at once, each served by a thread of
\* the server's pool: their identity resolution.
IdentityRaceInit ==
    /\ DriverInit
    /\ \/ store = None /\ remote = {} /\ nextId = 1
       \/ store = 1 /\ remote = {1} /\ nextId = 2
       \/ store = 1 /\ remote = {} /\ nextId = 2
    /\ conv = [c \in Convs |-> NewConv]
    /\ threads = [t \in Threads |-> NoThread]

IdentityRaceNext ==
    \/ \E c \in Convs : Request(c)
    \/ \E c \in Convs : configure_agent_try(c)
    \/ \E c \in Convs : configure_agent_except(c)
    \/ \E c \in Convs : register_functions(c)
    \/ \E c \in Convs : create_user_proxy(c)

IdentityRaceSpec == IdentityRaceInit /\ [][IdentityRaceNext]_vars

\* Two synchronous requests in progress at once, the role's identity being
\* there: their conversations and tool calls.
DispatchRaceInit ==
    /\ DriverInit
    /\ store = 1 /\ remote = {1} /\ nextId = 2
    /\ conv = [c \in Convs |-> NewConv]
    /\ threads = [t \in Threads |-> NoThread]

DispatchRaceNext ==
    \/ \E c \in Convs : Request(c)
    \/ \E c \in Convs : configure_agent_try(c)
    \/ \E c \in Convs : register_functions(c)
    \/ \E c \in Convs : create_user_proxy(c)
    \/ \E c \in Convs : Send(c)
    \/ \E c \in Convs : Run(c)
    \/ \E c \in Convs : DispatchBegin(c)
    \/ \E c \in Convs : DispatchEnd(c)
    \/ \E c \in Convs : Submit(c)
    \/ \E c \in Convs : Receive(c)

DispatchRaceSpec == DispatchRaceInit /\ [][DispatchRaceNext]_vars

\* The server with both endpoints: one conversation after the other, each a
\* synchronous request or a websocket session whose client may go away.
ServerNext ==
    \/ \E c \in Convs : Request(c)
    \/ \E c \in Convs : websocket_endpoint(c)
    \/ \E c \in Convs : on_connect(c)
    \/ \E c \in Convs : configure_agent(c)
    \/ \E c \in Convs : register_functions(c)
    \/ \E c \in Convs : create_user_proxy(c)
    \/ \E c \in Convs : Send(c)
    \/ \E c \in Convs : Run(c)
    \/ \E c \in Convs : Dispatch(c)
    \/ \E c \in Convs : Submit(c)
    \/ \E c \in Convs : Receive(c)
    \/ \E c \in Convs : output(c)
    \/ \E c \in Convs : ChannelClosed(c)

ServerSpec == AgentInit /\ [][ServerNext]_vars

\* ================================================================= claims
Active == {c \in Convs : conv[c].pc # "off"}

\* The failures a tool can end with.
ToolErrors == {"browser not launched", "page unavailable", "element not found"}

\* The assistant messages of a history that contain the sentinel.
Sentinels(history) ==
    {i \in 1..Len(history) :
        history[i].role = "assistant" /\ Contains(history[i].content, Sentinel)}

\* C1: every getInstance call that returns, returns the one registered
\* instance, and a direct construction made while an instance is registered
\* raises the singleton error and leaves the registered instance as it was.
C1_SingleInstance ==
    /\ Cardinality(returned) <= 1
    /\ returned \subseteq {instance}
    /\ (last.op = "getInstance" /\ last.exc = "none") => last.ret = instance
    /\ (last.op = "init" /\ last.pre # None) =>
          (last.exc = "singleton" /\ instance = last.pre)

\* C1: an instance has been acquired and a direct construction was refused.
C1_Witness ==
    /\ last.op = "init"
    /\ last.pre # None
    /\ last.exc = "singleton"
    /\ returned = {instance}

\* C2 as stated: in every state of a session that holds a page, whether that
\* page is open, was closed out-of-band or has crashed, a closeCurrentTab
\* that returns leaves getDriver() giving an open page other than the one
\* before, with the 960x1080 viewport.
C2_ResetGivesFreshPage ==
    (last.op = "closeCurrentTab" /\ last.exc = "none") =>
        LET p == getDriver(instance)
        IN /\ p # None
           /\ p # last.pre
           /\ pages[p].state = "open"
           /\ pages[p].viewport = Viewport

\* C3: no failure of a tool ends the request: every tool call that was
\* executed has its outcome among the round's outputs, a failure as content
\* that names it, and once the round is over every outcome has been
\* submitted to the oracle.
C3_ToolFailuresAreObservations ==
    \A c \in Active :
        /\ conv[c].raised \notin ToolErrors
        /\ \A i \in 1..Len(conv[c].outputs) :
              /\ conv[c].outputs[i].name = conv[c].calls[i]
              /\ conv[c].outputs[i].raised = "none"
              /\ ~conv[c].outputs[i].ok =>
                    \E e \in ToolErrors : Contains(conv[c].outputs[i].content, e)
        /\ conv[c].dispatched = conv[c].submitted + Len(conv[c].outputs)
        /\ conv[c].pc # "dispatch" =>
              (conv[c].outputs = << >> /\ conv[c].submitted = conv[c].requested)

\* C3: a tool failed with "page unavailable" and the oracle was handed that
\* as the call's output.
C3_Witness ==
    \E c \in Active :
        /\ conv[c].pc = "run"
        /\ conv[c].submitted > 0
        /\ conv[c].unavailable

C5_CreatesAtMostOnce ==
    \A c \in Active : conv[c].creates <= 1 /\ conv[c].depth <= 2

\* C6: a configure_agent call that finds the stored identity at the oracle
\* returns the stored remoteId and creates nothing: the store, the oracle's
\* assistants and the conversation's count of creations are as before, so
\* the next resolution returns the same remoteId.
C6_ResolveExisting ==
    [][\A c \in Convs :
          (/\ conv[c].pc = "configure"
           /\ conv'[c].pc = "register"
           /\ store # None
           /\ store \in remote)
          => /\ conv'[c].agent = store
             /\ store' = store
             /\ remote' = remote
             /\ nextId' = nextId
             /\ conv'[c].creates = conv[c].creates]_vars

\* C6: the identity existed from the start and nothing was ever created; a
\* conversation has resolved it after an earlier one had (the browser that
\* the earlier one's tool launched is there).
C6_Witness ==
    \E c \in Active :
        /\ conv[c].pc = "register"
        /\ conv[c].creates = 0
        /\ conv[c].agent = 1
        /\ store = 1
        /\ nextId = 2
        /\ instance # None

\* C7: a conversation holds at most one assistant message with the sentinel,
\* and from a state in which one has been produced the only step is the end
\* of the conversation: no oracle turn, no tool call, no further message.
C7_SentinelEnds ==
    [][\A c \in Convs :
          (/\ conv[c].pc \notin {"off", "done"}
           /\ Sentinels(conv[c].history) # {})
          => /\ conv'[c].pc \in {conv[c].pc, "done"}
             /\ conv'[c].turns = conv[c].turns
             /\ conv'[c].dispatched = conv[c].dispatched
             /\ conv'[c].history = conv[c].history
             /\ Cardinality(Sentinels(conv[c].history)) = 1]_vars

\* C7: a conversation with a tool round has ended on a sentinel message.
C7_Witness ==
    \E c \in Active :
        /\ conv[c].pc = "done"
        /\ conv[c].dispatched > 0
        /\ Cardinality(Sentinels(conv[c].history)) = 1

Scripted(c) ==
    /\ conv[c].pc = "done"
    /\ conv[c].raised = "none"
    /\ Len(conv[c].history) = 2
    /\ Sentinels(conv[c].history) = {2}

C10_OneResponse ==
    \A c \in Active :
        /\ Len(conv[c].http) <= 1
        /\ conv[c].pc # "done" => conv[c].http = << >>
        /\ conv[c].pc = "done" =>
              /\ Len(conv[c].http) = 1
              /\ IF conv[c].raised # "none"
                 THEN /\ conv[c].http[1] =
                            [status |-> InternalServerErrorStatus,
                             detail |-> "Internal Server Error"]
                      /\ conv[c].http[1].detail # conv[c].raised
                 ELSE /\ conv[c].http[1] =
                            [status |-> 200,
                             body |-> [response |-> conv[c].result]]
                      /\ conv[c].result = ChatResult(conv[c].history)

\* C10: the oracle failed in the middle of a conversation and the request
\* was answered with the 500.
C10_Witness ==
    \E c \in Active :
        /\ conv[c].pc = "done"
        /\ conv[c].raised = "oracle error"
        /\ conv[c].turns >= 1
        /\ Len(conv[c].http) = 1

\* C13 as stated: a closeDriver on a session whose browser was launched
\* returns without raising and leaves the browser closed and the automation
\* engine stopped, the first time and every time after.
C13_ShutdownCompletes ==
    (last.op = "closeDriver" /\ objs[last.pre].browser # "unset") =>
        /\ last.exc = "none"
        /\ objs[last.pre].browser = "closed"
        /\ objs[last.pre].playwright = "stopped"

\* C14: at most one page of the session is not closed, and it is the current
\* one; a replacement has closed the old page when the new one is current,
\* and one that failed after closing the old page has opened none.
C14_OnePageAtATime ==
    /\ Cardinality(OpenPages) <= 1
    /\ instance # None => OpenPages \subseteq {getDriver(instance)}
    /\ (last.op = "closeCurrentTab" /\ getDriver(instance) # last.pre) =>
          /\ pages[last.pre].state = "closed"
          /\ OpenPages = {getDriver(instance)}
    /\ (last.op = "closeCurrentTab" /\ last.exc = "new_page_fail") =>
          /\ pages[last.pre].state = "closed"
          /\ getDriver(instance) = last.pre
          /\ OpenPages = {}

\* C14: a replacement failed part-way, after the new page was opened and made
\* current: the old page is closed and the new one is the only open page.
C14_Witness ==
    /\ last.op = "closeCurrentTab"
    /\ last.exc = "viewport_fail"
    /\ getDriver(instance) # last.pre
    /\ pages[last.pre].state = "closed"
    /\ OpenPages = {getDriver(instance)}

\* C20 as stated: an instance that getInstance returns has its browser and a
\* current page.
C20_ReturnedHoldsPage ==
    (last.op = "getInstance" /\ last.exc = "none") =>
        /\ objs[last.ret].browser # "unset"
        /\ getDriver(last.ret) # None

\* C19 as stated: when two threads call getInstance at once with no
\* instance registered, at most one browser is launched, neither call ends
\* with the singleton error, and calls that return, return the same object.
C19_ConcurrentAcquire ==
    /\ launched <= 1
    /\ \A t \in Threads : threads[t].exc # "singleton"
    /\ \A t, u \in Threads :
          (/\ threads[t].pc = "done" /\ threads[t].exc = "none"
           /\ threads[u].pc = "done" /\ threads[u].exc = "none")
          => threads[t].ret = threads[u].ret

\* C15: the tool calls of a round are executed one at a time, each the next
\* in the order the oracle issued them, and the oracle's next turn begins
\* only when every call of the round has been executed and its output
\* collected.
C15_SequentialDispatch ==
    [][\A c \in Convs :
          conv[c].pc = "dispatch" =>
             /\ conv'[c].turns # conv[c].turns =>
                   /\ Len(conv[c].outputs) = Len(conv[c].calls)
                   /\ conv[c].dispatched = conv[c].requested
                   /\ \A i \in 1..Len(conv[c].calls) :
                         conv[c].outputs[i].name = conv[c].calls[i]
             /\ conv'[c].dispatched # conv[c].dispatched =>
                   /\ conv'[c].dispatched = conv[c].dispatched + 1
                   /\ conv'[c].turns = conv[c].turns
                   /\ Len(conv'[c].outputs) = Len(conv[c].outputs) + 1
                   /\ SubSeq(conv'[c].outputs, 1, Len(conv[c].outputs))
                         = conv[c].outputs
                   /\ conv'[c].outputs[Len(conv'[c].outputs)].name
                         = conv[c].calls[Len(conv'[c].outputs)]]_vars

\* C15: a round of two different calls was executed and the oracle took its
\* next turn.
C15_Witness ==
    \E c \in Active :
        /\ conv[c].pc = "run"
        /\ conv[c].turns = 2
        /\ conv[c].calls = <<"read_url", "jump_to_search_engine">>
        /\ conv[c].submitted = 2
        /\ conv[c].dispatched = 2

\* The websocket sessions.
Streams == {c \in Active : conv[c].mode = "stream"}

\* C11 as stated: once the channel of a session is closed while its
\* conversation is in progress (the oracle has taken a turn), no further
\* oracle turn is sent and no further round of tool calls is begun.
C11_StopsOnClosure ==
    [][\A c \in Convs :
          (/\ conv[c].pc \notin {"off", "idle", "done"}
           /\ conv[c].mode = "stream"
           /\ conv[c].channel = "closed"
           /\ conv[c].closedAt = "conversing")
          => /\ conv'[c].turns = conv[c].turns
             /\ conv'[c].rounds = conv[c].rounds]_vars

\* C12 as stated: a session reads one initial message, and when the chat of
\* a session that dispatched a tool call has ended, an output item has been
\* written to the channel.
C12_WritesBeforeEnd ==
    \A c \in Streams :
        /\ conv[c].reads <= 1
        /\ conv[c].pc \notin {"input", "done"} => conv[c].reads = 1
        /\ (conv[c].pc = "output" /\ conv[c].dispatched >= 1)
              => conv[c].writes >= 1

\* C16: no step of either endpoint replaces the registered session, changes
\* the state of its browser or launches another browser.
C16_SessionKept ==
    [][instance # None =>
          /\ instance' = instance
          /\ objs'[instance].browser = objs[instance].browser
          /\ launched' = launched]_vars

\* C16: a websocket session whose channel was closed has ended after
\* dispatching tool calls, and the browser it used is open.
C16_Witness ==
    \E c \in Streams :
        /\ conv[c].pc = "done"
        /\ conv[c].channel = "closed"
        /\ conv[c].closedAt = "conversing"
        /\ conv[c].dispatched >= 1
        /\ instance # None
        /\ objs[instance].browser = "open"

\* C17 as stated: two requests in progress in the same process are never
\* both inside a tool call on the shared browser session.
C17_NoOverlappingDispatch ==
    ~ \E c, d \in Active :
          c # d /\ conv[c].pc = "tool" /\ conv[d].pc = "tool"

\* C18 as stated: the conversations in progress have created at most one
\* identity between them, and the oracle holds at most one assistant for
\* the role.
C18_CreatesOnceInTotal ==
    /\ conv[1].creates + conv[2].creates <= 1
    /\ Cardinality(remote) <= 1

====
